---------------------------- MODULE Spec2Model ----------------------------
(***************************************************************************)
(* Call audio pipeline of the Qtel GTK4 client: the VOX detector (vox.cpp), *)
(* the transmit decision and the duplex switching of the call dialog       *)
(* (qtel-call-dialog.cpp).                                                 *)
(*                                                                         *)
(* The handlers of the source are operators that map a "world" record to   *)
(* the world after the call, so that a handler's nested calls compose as   *)
(* in the code.  A world has the fields                                    *)
(*   self    the QtelCallDialog struct                                     *)
(*   vox     the members of the Vox object                                 *)
(*   audio   the open flag of the two AudioIO devices and the two valves:  *)
(*           a valve is as the last setOpen left it, a device is open from *)
(*           an open that succeeded to the next close                      *)
(*   sources the pending GLib timeout sources armed by Vox                 *)
(*   trace   the valve, device, signal and timer operations made by the    *)
(*           handler that ran last, each with the audio state after it     *)
(*   ctx     where the call chain started: "construct" (a constructor),    *)
(*           "audio" (an audio-data callback, Vox::writeSamples) or        *)
(*           "control" (every other event)                                 *)
(* Each action of the next-state relation is one event of the GLib main    *)
(* loop, handled to its end.  Widget sensitivity is not modelled: a        *)
(* handler can be invoked in every connection state.  The remote endpoint  *)
(* (EchoLink::Qso) is external: its state-change notifications arrive as   *)
(* events of their own.                                                    *)
(***************************************************************************)
EXTENDS Integers, Sequences, FiniteSets, TLC

VARIABLES self, vox, audio, sources, trace, hang_age, hang_delay

vars == <<self, vox, audio, sources, trace, hang_age, hang_delay>>

(***************************************************************************)
(* Bounds of the model.                                                    *)
(***************************************************************************)
\* longest audio block handed to Vox::writeSamples
MaxBlockLen == 2
\* largest hang delay a settings source or the spin row supplies, in time units
MaxDelay == 1

(***************************************************************************)
(* Program constants.                                                      *)
(***************************************************************************)
\* floor and ceiling of the reported level, dB
DbFloor == -60
DbCeiling == 0
\* Vox::Vox defaults; a delay is counted in time units of 1000 ms
DefaultThreshold == -30
DefaultDelay == 1
\* fixed-point scale of a sample value: 1.0f is One
One == 1000000
\* 0.001f in the same scale
FloorLevel == 1000

\* INTERNAL_SAMPLE_RATE of the build
InternalSampleRate == 16000

\* device rates AudioIO::sampleRate can give: the tiers 8, 16 and 48 kHz and
\* two rates outside them
DeviceRates == {8000, 16000, 32000, 44100, 48000}

ConnectionState == {"DISCONNECTED", "CONNECTING", "CONNECTED", "BYE_RECEIVED"}
VoxState == {"IDLE", "ACTIVE", "HANG"}

\* values handed to Vox::setThreshold and Vox::setDelay
ThresholdInputs == {DbFloor - 1, DefaultThreshold, DbCeiling + 1}
DelayInputs == (0 - 1)..MaxDelay

\* sample values of a block, in units of 1/One
Samples == {0, 2002, 2004, 200000, 4000000}
Blocks == UNION {[1..n -> Samples] : n \in 1..MaxBlockLen}

(***************************************************************************)
(* The recorded trace.                                                     *)
(***************************************************************************)
\* F applied to the value of v, which is evaluated once
Bind(v, F(_)) == CHOOSE r \in {F(x) : x \in {v}} : TRUE

Log(w, op, obj, val) ==
  Bind(w, LAMBDA x :
    [x EXCEPT !.trace = Append(@, [op |-> op, obj |-> obj, val |-> val,
                                   audio |-> x.audio, ctx |-> x.ctx])])

(***************************************************************************)
(* Async::AudioValve::setOpen, Async::AudioIO::open and close, as the      *)
(* dialog uses them.  open may fail: ok is its result.                     *)
(***************************************************************************)
setOpen(w, valve, do_open) ==
  Log([w EXCEPT !.audio[valve] = do_open], "setOpen", valve,
      IF do_open THEN 1 ELSE 0)

AudioIO_close(w, dev) ==
  Log([w EXCEPT !.audio[dev] = FALSE], "close", dev, 0)

AudioIO_open(w, dev, ok) ==
  Log([w EXCEPT !.audio[dev] = ok], "open", dev, IF ok THEN 1 ELSE 0)

\* open_audio_device: mode is "RD", "WR" or "RDWR"
open_audio_device(w, mode, mic_ok, spkr_ok) ==
  LET w1 == IF mode \in {"RD", "RDWR"}
              THEN AudioIO_open(w, "mic_audio_io", mic_ok) ELSE w
  IN IF mode \in {"WR", "RDWR"}
       THEN AudioIO_open(w1, "spkr_audio_io", spkr_ok) ELSE w1

\* open_audio_device that reports success whatever the opens returned
open_audio_device_ok_always(mode, mic_ok, spkr_ok) == TRUE

\* the value open_audio_device returns
open_audio_device_ok(mode, mic_ok, spkr_ok) ==
  (mode \in {"RD", "RDWR"} => mic_ok) /\ (mode \in {"WR", "RDWR"} => spkr_ok)

(***************************************************************************)
(* set_transmitting: ok is the result of the one device open a half-duplex *)
(* switch makes.                                                           *)
(***************************************************************************)
\* switch_to_tx_mode with the device opened before the receive valve closes
switch_to_tx_mode_valveLast(w, ok) ==
  Bind(w, LAMBDA x :
    IF ~x.self.audio_full_duplex
      THEN setOpen(
             open_audio_device(
               AudioIO_close(AudioIO_close(x, "mic_audio_io"), "spkr_audio_io"),
               "RD", ok, ok),
             "rem_audio_valve", FALSE)
      ELSE x)

\* switch_to_tx_mode whatever the duplex mode
switch_to_tx_mode_anyDuplex(w, ok) ==
  open_audio_device(
    AudioIO_close(
      AudioIO_close(setOpen(w, "rem_audio_valve", FALSE), "mic_audio_io"),
      "spkr_audio_io"),
    "RD", ok, ok)

\* switch_to_tx_mode that leaves the playback device as it is
switch_to_tx_mode_keepSpkr(w, ok) ==
  Bind(w, LAMBDA x :
    IF ~x.self.audio_full_duplex
      THEN open_audio_device(
             AudioIO_close(setOpen(x, "rem_audio_valve", FALSE), "mic_audio_io"),
             "RD", ok, ok)
      ELSE x)

\* lines 585..595, "Half duplex: switch to TX mode"
switch_to_tx_mode(w, ok) ==
  Bind(w, LAMBDA x :
    IF ~x.self.audio_full_duplex
      THEN open_audio_device(
             AudioIO_close(
               AudioIO_close(setOpen(x, "rem_audio_valve", FALSE), "mic_audio_io"),
               "spkr_audio_io"),
             "RD", ok, ok)
      ELSE x)

\* switch_to_rx_mode that opens the playback device only if it was open
\* before the switch
switch_to_rx_mode_noRetry(w, ok) ==
  Bind(w, LAMBDA x :
    IF ~x.self.audio_full_duplex
      THEN setOpen(
             IF x.audio.spkr_audio_io \/ x.audio.mic_audio_io
               THEN open_audio_device(
                      AudioIO_close(AudioIO_close(x, "mic_audio_io"), "spkr_audio_io"),
                      "WR", ok, ok)
               ELSE AudioIO_close(AudioIO_close(x, "mic_audio_io"), "spkr_audio_io"),
             "rem_audio_valve", TRUE)
      ELSE x)

\* switch_to_rx_mode that leaves the capture device as it is
switch_to_rx_mode_keepMic(w, ok) ==
  Bind(w, LAMBDA x :
    IF ~x.self.audio_full_duplex
      THEN setOpen(
             open_audio_device(AudioIO_close(x, "spkr_audio_io"), "WR", ok, ok),
             "rem_audio_valve", TRUE)
      ELSE x)

\* lines 613..623, "Half duplex: switch to RX mode"
switch_to_rx_mode(w, ok) ==
  Bind(w, LAMBDA x :
    IF ~x.self.audio_full_duplex
      THEN setOpen(
             open_audio_device(
               AudioIO_close(AudioIO_close(x, "mic_audio_io"), "spkr_audio_io"),
               "WR", ok, ok),
             "rem_audio_valve", TRUE)
      ELSE x)

\* set_transmitting that closes the transmit valve after the switch to RX mode
set_transmitting_valveLast(w, transmit, ok) ==
  Bind(w, LAMBDA x :
    IF x.self.is_transmitting = transmit THEN x
    ELSE IF transmit
      THEN setOpen(switch_to_tx_mode([x EXCEPT !.self.is_transmitting = transmit], ok),
                   "ptt_valve", TRUE)
      ELSE setOpen(switch_to_rx_mode([x EXCEPT !.self.is_transmitting = transmit], ok),
                   "ptt_valve", FALSE))

\* set_transmitting that leaves the transmit valve as it is
set_transmitting_noValve(w, transmit, ok) ==
  Bind(w, LAMBDA x :
    IF x.self.is_transmitting = transmit THEN x
    ELSE IF transmit
      THEN switch_to_tx_mode([x EXCEPT !.self.is_transmitting = transmit], ok)
      ELSE switch_to_rx_mode([x EXCEPT !.self.is_transmitting = transmit], ok))

set_transmitting(w, transmit, ok) ==
  Bind(w, LAMBDA x :
    IF x.self.is_transmitting = transmit THEN x
    ELSE IF transmit
      THEN setOpen(switch_to_tx_mode([x EXCEPT !.self.is_transmitting = transmit], ok),
                   "ptt_valve", TRUE)
      ELSE switch_to_rx_mode(
             setOpen([x EXCEPT !.self.is_transmitting = transmit], "ptt_valve", FALSE),
             ok))

\* check_transmit without the test of the connection state
check_transmit_anyState(w, ok) ==
  Bind(w, LAMBDA x :
    LET ptt_active == x.self.ptt_pressed
        vox_active == x.vox.m_enabled /\ x.vox.m_state # "IDLE"
    IN set_transmitting(x, ptt_active \/ vox_active, ok))

check_transmit(w, ok) ==
  Bind(w, LAMBDA x :
    LET ptt_active == x.self.ptt_pressed
        vox_active == x.vox.m_enabled /\ x.vox.m_state # "IDLE"
        should_transmit == x.self.state = "CONNECTED" /\ (ptt_active \/ vox_active)
    IN set_transmitting(x, should_transmit, ok))

(***************************************************************************)
(* The GLib main context, as far as Vox uses it: g_timeout_add returns the *)
(* id of a new source, g_source_remove destroys the source of an id.  A    *)
(* source is [id, remaining, stale]; remaining counts the time left before *)
(* it is due, stale is set (by Commit, below) once the HANG episode that   *)
(* armed it is over.                                                       *)
(***************************************************************************)
NewSourceId(srcs) ==
  CHOOSE i \in 1..(Cardinality(srcs) + 1) : \A s \in srcs : s.id # i

g_timeout_add(w, id, interval) ==
  Log([w EXCEPT !.sources = @ \cup {[id |-> id, remaining |-> interval,
                                      stale |-> FALSE]}],
      "g_timeout_add", "timer", id)

g_source_remove(w, id) ==
  Log([w EXCEPT !.sources = {s \in @ : s.id # id}], "g_source_remove", "timer", id)

(***************************************************************************)
(* Signal handlers the dialog connects to the Vox signals.                 *)
(***************************************************************************)
\* on_vox_level_changed only sets the level bar
on_vox_level_changed(w, level_db) == w

\* on_vox_state_changed that leaves the transmit decision as it is
on_vox_state_changed_noCheck(w, state, ok) == w

on_vox_state_changed(w, state, ok) == check_transmit(w, ok)

(***************************************************************************)
(* Vox                                                                     *)
(***************************************************************************)
Vox_Vox ==
  [m_enabled |-> FALSE, m_threshold |-> DefaultThreshold, m_delay |-> DefaultDelay,
   m_state |-> "IDLE", m_timer_id |-> 0]

\* Vox::setState that forgets the timer without removing its source
Vox_stopTimer_forget(w) == [w EXCEPT !.vox.m_timer_id = 0]

\* Vox::setState, lines 150..155: stop any existing timer
Vox_stopTimer(w) ==
  Bind(w, LAMBDA x :
    IF x.vox.m_timer_id # 0
      THEN [g_source_remove(x, x.vox.m_timer_id) EXCEPT !.vox.m_timer_id = 0]
      ELSE x)

\* Vox::setState that arms a hang timer which is due at once
Vox_startTimer_noDelay(w) ==
  Bind(w, LAMBDA x :
    IF x.vox.m_state = "HANG"
      THEN [g_timeout_add(x, NewSourceId(x.sources), 0)
              EXCEPT !.vox.m_timer_id = NewSourceId(x.sources)]
      ELSE x)

\* Vox::setState that never arms the hang timer
Vox_startTimer_never(w) == w

\* Vox::setState that arms the timer on entering ACTIVE as well
Vox_startTimer_onActive(w) ==
  Bind(w, LAMBDA x :
    IF x.vox.m_state \in {"ACTIVE", "HANG"}
      THEN [g_timeout_add(x, NewSourceId(x.sources), x.vox.m_delay)
              EXCEPT !.vox.m_timer_id = NewSourceId(x.sources)]
      ELSE x)

\* Vox::setState, lines 157..161: start the hang timer if entering HANG
Vox_startTimer(w) ==
  Bind(w, LAMBDA x :
    IF x.vox.m_state = "HANG"
      THEN [g_timeout_add(x, NewSourceId(x.sources), x.vox.m_delay)
              EXCEPT !.vox.m_timer_id = NewSourceId(x.sources)]
      ELSE x)

Vox_setState(w, new_state, ok) ==
  Bind(w, LAMBDA x :
    IF new_state = x.vox.m_state THEN x
    ELSE on_vox_state_changed(
           Log(Vox_startTimer(Vox_stopTimer([x EXCEPT !.vox.m_state = new_state])),
               "emit", "stateChanged", 0),
           new_state, ok))

\* Vox::setEnabled that stores the flag and reports the floor level only
Vox_setEnabled_flagOnly(w, enable, ok) ==
  IF ~enable
    THEN on_vox_level_changed(
           Log([w EXCEPT !.vox.m_enabled = enable], "emit", "levelChanged", DbFloor),
           DbFloor)
    ELSE [w EXCEPT !.vox.m_enabled = enable]

Vox_setEnabled(w, enable, ok) ==
  IF ~enable
    THEN Vox_setState(
           on_vox_level_changed(
             Log([w EXCEPT !.vox.m_enabled = enable], "emit", "levelChanged", DbFloor),
             DbFloor),
           "IDLE", ok)
    ELSE [w EXCEPT !.vox.m_enabled = enable]

\* Vox::setThreshold that stores its argument as it is
Vox_setThreshold_noClamp(w, threshold_db) ==
  [w EXCEPT !.vox.m_threshold = threshold_db]

Vox_setThreshold(w, threshold_db) ==
  [w EXCEPT !.vox.m_threshold =
     IF threshold_db < DbFloor THEN DbFloor
     ELSE IF threshold_db > DbCeiling THEN DbCeiling
     ELSE threshold_db]

Vox_setDelay(w, delay_ms) ==
  [w EXCEPT !.vox.m_delay = IF delay_ms < 0 THEN 0 ELSE delay_ms]

(***************************************************************************)
(* The level of a block.  Sample values are fixed-point numbers in units   *)
(* of 1/One; a division rounds toward zero.                                *)
(***************************************************************************)
Abs(x) == IF x < 0 THEN 0 - x ELSE x

TruncDiv(a, b) == IF a < 0 THEN 0 - ((0 - a) \div b) ELSE a \div b

RECURSIVE SumTo(_, _)
\* f[1] + ... + f[n]
SumTo(f, n) == IF n = 0 THEN 0 ELSE SumTo(f, n - 1) + f[n]

\* the loop of lines 97..101
DcOffset(samples) ==
  LET count == Len(samples)
  IN SumTo([i \in 1..count |-> TruncDiv(samples[i], count)], count)

\* the loop of lines 104..116
AvgLevel(samples) ==
  LET count == Len(samples)
      dc_offset == DcOffset(samples)
  IN SumTo([i \in 1..count |-> Abs(TruncDiv(samples[i] - dc_offset, count))], count)

\* floor(One * 10^(-j/20)) for j = 0..19
DecadeTable ==
  <<1000000, 891250, 794328, 707945, 630957, 562341, 501187, 446683, 398107,
    354813, 316227, 281838, 251188, 223872, 199526, 177827, 158489, 141253,
    125892, 112201>>

RECURSIVE Pow10(_)
Pow10(n) == IF n = 0 THEN 1 ELSE 10 * Pow10(n - 1)

\* the largest level whose 20*log10 is at most -k: floor(One * 10^(-k/20))
LevelOfDb == [k \in 0..120 |-> DecadeTable[(k % 20) + 1] \div Pow10(k \div 20)]

\* static_cast<int>(20.0f * log10f(avg)) for 0 <= avg <= One: the conversion
\* rounds toward zero, so the result is -k for the largest k with
\* avg <= LevelOfDb[k]
Log20(avg) == 0 - Cardinality({k \in 1..120 : avg <= LevelOfDb[k]})

\* DbLevel without the floor of 0.001
DbLevel_noFloor(avg) ==
  IF avg > One THEN [db |-> DbCeiling, log_args |-> <<>>]
  ELSE [db |-> Log20(avg), log_args |-> <<avg>>]

\* lines 118..126: the level in dB, and the arguments log10f was called with
DbLevel(avg) ==
  IF avg > One THEN [db |-> DbCeiling, log_args |-> <<>>]
  ELSE IF avg > FloorLevel THEN [db |-> Log20(avg), log_args |-> <<avg>>]
  ELSE [db |-> DbFloor, log_args |-> <<>>]

\* what Vox::writeSamples does with a block: the level it reports and
\* whether it calls log10f for it
LevelClass(b) ==
  Bind(DbLevel(AvgLevel(b)), LAMBDA level : <<level.db, level.log_args # <<>>>>)

\* Vox::writeSamples reads a block only through its level: one block of
\* Blocks for every level class
BlockInputs ==
  {CHOOSE b \in Blocks : LevelClass(b) = c : c \in {LevelClass(b) : b \in Blocks}}

\* lines 118..127: the calls made to compute and report the level
Vox_reportLevel(w, level) ==
  on_vox_level_changed(
    Log(IF level.log_args # <<>>
          THEN Log(w, "call", "log10f", IF level.log_args[1] > 0 THEN 1 ELSE 0)
          ELSE w,
        "emit", "levelChanged", level.db),
    level.db)

\* Vox::writeSamples that enters HANG on a low block from any state
Vox_writeSamples_hangFromAny(w, samples, count, ok) ==
  Bind(w, LAMBDA x :
    IF ~x.vox.m_enabled THEN x
    ELSE Bind(DbLevel(AvgLevel(samples)), LAMBDA level :
           IF level.db > x.vox.m_threshold
             THEN Vox_setState(Vox_reportLevel(x, level), "ACTIVE", ok)
             ELSE Vox_setState(Vox_reportLevel(x, level), "HANG", ok)))

\* a failed assert ends the process by abort(): nothing runs after it
abort(w, val) == Log(w, "abort", "assert", val)

\* Vox::writeSamples that processes a block whether VOX is enabled or not
Vox_processBlock_anyEnabled(w, samples, ok) ==
  Bind(w, LAMBDA x :
    Bind(DbLevel(AvgLevel(samples)), LAMBDA level :
      IF level.db > x.vox.m_threshold
        THEN Vox_setState(Vox_reportLevel(x, level), "ACTIVE", ok)
        ELSE IF x.vox.m_state = "ACTIVE"
               THEN Vox_setState(Vox_reportLevel(x, level), "HANG", ok)
               ELSE Vox_reportLevel(x, level)))

\* lines 91..138: the level of the block and the change of state
Vox_processBlock(w, samples, ok) ==
  Bind(w, LAMBDA x :
    IF ~x.vox.m_enabled THEN x
    ELSE Bind(DbLevel(AvgLevel(samples)), LAMBDA level :
           IF level.db > x.vox.m_threshold
             THEN Vox_setState(Vox_reportLevel(x, level), "ACTIVE", ok)
             ELSE IF x.vox.m_state = "ACTIVE"
                    THEN Vox_setState(Vox_reportLevel(x, level), "HANG", ok)
                    ELSE Vox_reportLevel(x, level)))

\* Vox::writeSamples with the assert compiled out: a block of no samples has
\* the average 0
Vox_writeSamples_noAssert(w, samples, count, ok) ==
  Vox_processBlock(w, samples, ok)

\* samples holds the count samples of the block (none if count <= 0)
Vox_writeSamples(w, samples, count, ok) ==
  IF count > 0 THEN Vox_processBlock(w, samples, ok) ELSE abort(w, count)

\* GLib dispatches the due source src: it is destroyed as onTimeout returns
\* G_SOURCE_REMOVE
Vox_onTimeout(w, src, ok) ==
  Vox_setState([w EXCEPT !.sources = @ \ {src}, !.vox.m_timer_id = 0], "IDLE", ok)

(***************************************************************************)
(* The call dialog: PTT, VOX controls, connection state.                   *)
(***************************************************************************)
\* on_ptt_pressed whose plain click leaves a toggled-on PTT as it is
on_ptt_pressed_keepToggle(w, ctrl, ok) ==
  Bind(w, LAMBDA x :
    check_transmit(
      IF ctrl
        THEN [x EXCEPT !.self.ptt_pressed = ~@, !.self.ptt_toggle_mode = TRUE]
        ELSE IF ~x.self.ptt_toggle_mode \/ ~x.self.ptt_pressed
               THEN [x EXCEPT !.self.ptt_pressed = TRUE,
                              !.self.ptt_toggle_mode = FALSE]
               ELSE x,
      ok))

on_ptt_pressed(w, ctrl, ok) ==
  Bind(w, LAMBDA x :
    check_transmit(
      IF ctrl
        THEN [x EXCEPT !.self.ptt_pressed = ~@, !.self.ptt_toggle_mode = TRUE]
        ELSE IF ~x.self.ptt_toggle_mode \/ ~x.self.ptt_pressed
               THEN [x EXCEPT !.self.ptt_pressed = TRUE,
                              !.self.ptt_toggle_mode = FALSE]
               ELSE [x EXCEPT !.self.ptt_pressed = FALSE,
                              !.self.ptt_toggle_mode = FALSE],
      ok))

\* on_ptt_released that clears ptt_pressed and skips check_transmit
on_ptt_released_noCheck(w, ok) ==
  Bind(w, LAMBDA x :
    IF x.self.ptt_toggle_mode THEN x
    ELSE [x EXCEPT !.self.ptt_pressed = FALSE])

\* on_ptt_released that ends a toggled-on PTT as well
on_ptt_released_anyMode(w, ok) ==
  check_transmit([w EXCEPT !.self.ptt_pressed = FALSE], ok)

on_ptt_released(w, ok) ==
  Bind(w, LAMBDA x :
    IF x.self.ptt_toggle_mode THEN x
    ELSE check_transmit([x EXCEPT !.self.ptt_pressed = FALSE], ok))

\* the handler of notify::active of the switch row; it reads the row
on_vox_enabled_changed(w, ok) ==
  Bind(w, LAMBDA x : Vox_setEnabled(x, x.self.vox_enable_row, ok))

\* adw_switch_row_set_active: notify::active is emitted when the value changes
adw_switch_row_set_active(w, active, ok) ==
  Bind(w, LAMBDA x :
    IF x.self.vox_enable_row = active THEN x
    ELSE on_vox_enabled_changed([x EXCEPT !.self.vox_enable_row = active], ok))

on_vox_threshold_changed(w, threshold) == Vox_setThreshold(w, threshold)

on_vox_delay_changed(w, delay) == Vox_setDelay(w, delay)

set_receiving(w, receiving) ==
  Bind(w, LAMBDA x :
    IF x.self.is_receiving = receiving THEN x
    ELSE [x EXCEPT !.self.is_receiving = receiving])

\* update_ui_for_state that releases PTT when the connection has ended
update_ui_for_state_resetPtt(w, ok) ==
  Bind(w, LAMBDA x :
    IF x.self.state = "DISCONNECTED"
      THEN set_receiving(
             set_transmitting([x EXCEPT !.self.ptt_pressed = FALSE], FALSE, ok),
             FALSE)
    ELSE IF x.self.state = "BYE_RECEIVED"
      THEN set_transmitting([x EXCEPT !.self.ptt_pressed = FALSE], FALSE, ok)
    ELSE x)

update_ui_for_state(w, ok) ==
  Bind(w, LAMBDA x :
    IF x.self.state = "DISCONNECTED"
      THEN set_receiving(set_transmitting(x, FALSE, ok), FALSE)
    ELSE IF x.self.state = "BYE_RECEIVED"
      THEN set_transmitting(x, FALSE, ok)
    ELSE x)

\* on_qso_state_change that stores the state only
on_qso_state_change_stateOnly(w, state, ok) == [w EXCEPT !.self.state = state]

\* the handler of Qso::stateChange; the notification it handles is recorded
on_qso_state_change(w, state, ok) ==
  check_transmit(
    update_ui_for_state(
      [Log(w, "stateChange", state, 0) EXCEPT !.self.state = state], ok),
    ok)

\* the watchdog reads the state and the time stamps only: its reopen of the
\* speaker is commented out (lines 502..511)
audio_watchdog_callback(w) == w

\* conn_ok: the callsign is configured and Qso::initOk holds.  Qso::accept is
\* a command to the remote endpoint.
create_connection(w, conn_ok, ok) ==
  IF ~conn_ok THEN w
  ELSE set_transmitting([w EXCEPT !.self.qso = TRUE], FALSE, ok)

\* addresses: the lookup found an address
on_dns_results_ready(w, addresses, conn_ok, ok) ==
  IF ~addresses THEN [w EXCEPT !.self.dns = "done"]
  ELSE create_connection([w EXCEPT !.self.dns = "done"], conn_ok, ok)

(***************************************************************************)
(* Construction.                                                           *)
(***************************************************************************)
\* what settings_get_default supplies to init_audio_pipeline
Settings ==
  [vox_enabled : BOOLEAN, vox_threshold : ThresholdInputs,
   vox_delay : DelayInputs, use_full_duplex : BOOLEAN,
   sample_rate : DeviceRates]

\* the fields qtel_call_dialog_init sets; the devices and valves do not exist yet
qtel_call_dialog_init ==
  [self |-> [state |-> "DISCONNECTED", is_transmitting |-> FALSE,
             is_receiving |-> FALSE, accept_connection |-> FALSE,
             ptt_toggle_mode |-> FALSE, audio_full_duplex |-> FALSE,
             ptt_pressed |-> FALSE, qso |-> FALSE, dns |-> "none",
             vox_enable_row |-> FALSE, audio_watchdog_id |-> 0],
   vox |-> Vox_Vox,
   audio |-> [mic_audio_io |-> FALSE, spkr_audio_io |-> FALSE,
              rem_audio_valve |-> FALSE, ptt_valve |-> FALSE],
   sources |-> {},
   trace |-> <<>>,
   ctx |-> "construct"]

\* the value an AdwSpinRow keeps of a value set on it: its adjustment clamps
SpinRowValue(v, lower, upper) ==
  IF v < lower THEN lower ELSE IF v > upper THEN upper ELSE v

\* upper limit of the hold-time row, in time units (3000 ms)
DelayRowUpper == 3

\* spkr_chain without the stage from 8 kHz to the internal rate
spkr_chain_deviceOnly(rate) ==
  IF rate > 16000 THEN <<[obj |-> "i2", ratio |-> 3]>> ELSE <<>>

\* the stages of the playback chain, lines 885..909, for the device rate
\* AudioIO::sampleRate gives: [obj, ratio] in the order they are registered
spkr_chain(rate) ==
  (IF InternalSampleRate = 8000 => rate > 8000
     THEN <<[obj |-> "i1", ratio |-> 2]>> ELSE <<>>)
  \o (IF rate > 16000 THEN <<[obj |-> "i2", ratio |-> 3]>> ELSE <<>>)

\* the stages of the capture chain between the device and the splitter,
\* lines 922..940
mic_chain(rate) ==
  (IF rate > 16000 THEN <<[obj |-> "d1", ratio |-> 3]>> ELSE <<>>)
  \o (IF InternalSampleRate < 16000 /\ rate > 8000
        THEN <<[obj |-> "d2", ratio |-> 2]>> ELSE <<>>)

\* the stage between the splitter and the transmit valve, lines 948..957
tx_chain ==
  IF InternalSampleRate = 16000
    THEN <<[obj |-> "down_sampler", ratio |-> 2]>> ELSE <<>>

RECURSIVE new_stages(_, _, _)
\* the first n stages of chain are created and registered
new_stages(w, chain, n) ==
  IF n = 0 THEN w
  ELSE Log(new_stages(w, chain, n - 1), "new", chain[n].obj, chain[n].ratio)

\* lines 877..957: the receive valve is created closed, the chains are built
\* for the device rate, the transmit valve is created closed
init_chains_and_valves(w, rate) ==
  setOpen(
    new_stages(
      new_stages(
        new_stages(
          Log(setOpen(w, "rem_audio_valve", FALSE), "call", "sampleRate", rate),
          spkr_chain(rate), Len(spkr_chain(rate))),
        mic_chain(rate), Len(mic_chain(rate))),
      tx_chain, Len(tx_chain)),
    "ptt_valve", FALSE)

\* lines 960..975: the VOX settings are loaded and shown in the rows, whose
\* change handlers run
init_vox(w, settings, ok) ==
  on_vox_delay_changed(
    on_vox_threshold_changed(
      adw_switch_row_set_active(
        Vox_setDelay(
          Vox_setThreshold(
            Vox_setEnabled(w, settings.vox_enabled, ok),
            settings.vox_threshold),
          settings.vox_delay),
        settings.vox_enabled, ok),
      SpinRowValue(settings.vox_threshold, DbFloor, DbCeiling)),
    SpinRowValue(settings.vox_delay, 0, DelayRowUpper))

\* line 1013 starts the watchdog, whose source is kept apart from the
\* sources of Vox: audio_watchdog_id is 1 while it exists
init_audio_pipeline(w, settings, mic_ok, spkr_ok) ==
  LET mode == IF settings.use_full_duplex THEN "RDWR" ELSE "WR"
      opened == open_audio_device(
                  [init_vox(init_chains_and_valves(w, settings.sample_rate),
                            settings, spkr_ok)
                     EXCEPT !.self.audio_full_duplex = settings.use_full_duplex],
                  mode, mic_ok, spkr_ok)
  IN [(IF open_audio_device_ok(mode, mic_ok, spkr_ok)
         THEN setOpen(opened, "rem_audio_valve", TRUE)
         ELSE opened)
        EXCEPT !.self.audio_watchdog_id = 1]

\* ip_ok: the ip_address argument is a valid, non-empty address
qtel_call_dialog_new(settings, mic_ok, spkr_ok, ip_ok, conn_ok) ==
  IF ip_ok
    THEN create_connection(
           init_audio_pipeline(qtel_call_dialog_init, settings, mic_ok, spkr_ok),
           conn_ok, spkr_ok)
    ELSE init_audio_pipeline(qtel_call_dialog_init, settings, mic_ok, spkr_ok)

qtel_call_dialog_new_from_host(settings, mic_ok, spkr_ok) ==
  [init_audio_pipeline(qtel_call_dialog_init, settings, mic_ok, spkr_ok)
     EXCEPT !.self.dns = "pending"]

\* Qso::accept is library code: notifies tells whether it emits
\* stateChange(CONNECTED) before it returns
Qso_accept(w, notifies, ok) ==
  IF notifies THEN on_qso_state_change(w, "CONNECTED", ok) ELSE w

\* lines 1716..1725 store CONNECTED whatever Qso::accept did
qtel_call_dialog_new_accept(settings, mic_ok, spkr_ok, ip_ok, conn_ok, notifies) ==
  Bind(init_audio_pipeline(
         [qtel_call_dialog_init EXCEPT !.self.accept_connection = TRUE],
         settings, mic_ok, spkr_ok),
       LAMBDA x :
         IF ip_ok /\ conn_ok
           THEN check_transmit(
                  update_ui_for_state(
                    [Qso_accept(create_connection(x, conn_ok, spkr_ok),
                                notifies, spkr_ok)
                       EXCEPT !.self.state = "CONNECTED"],
                    spkr_ok),
                  spkr_ok)
           ELSE x)

(***************************************************************************)
(* Destruction.  delete of a valve, the splitter or the FIFO destroys a    *)
(* node of the graph with its buffers; Async::AudioIO::~AudioIO closes the *)
(* device.                                                                 *)
(***************************************************************************)
delete(w, obj) == Log(w, "delete", obj, 0)

delete_AudioIO(w, dev) == Log([w EXCEPT !.audio[dev] = FALSE], "delete", dev, 0)

\* Vox::~Vox
Vox_dtor(w) == Log(Vox_stopTimer(w), "delete", "vox", 0)

\* delete self->qso.  The destructor of EchoLink::Qso is library code: emits
\* tells whether it ends a connection that is not DISCONNECTED with a
\* stateChange notification, which on_qso_state_change handles.
delete_qso(w, emits, ok) ==
  Bind(w, LAMBDA x :
    IF ~x.self.qso THEN x
    ELSE [Log(IF emits /\ x.self.state # "DISCONNECTED"
                THEN on_qso_state_change(x, "DISCONNECTED", ok)
                ELSE x,
              "delete", "qso", 0)
            EXCEPT !.self.qso = FALSE])

\* delete self->dns
delete_dns(w) ==
  Bind(w, LAMBDA x :
    IF x.self.dns = "none" THEN x
    ELSE [Log(x, "delete", "dns", 0) EXCEPT !.self.dns = "none"])

\* lines 1421..1425
stop_audio_watchdog(w) ==
  Bind(w, LAMBDA x :
    IF x.self.audio_watchdog_id > 0
      THEN [Log(x, "g_source_remove", "audio_watchdog", x.self.audio_watchdog_id)
              EXCEPT !.self.audio_watchdog_id = 0]
      ELSE x)

qtel_call_dialog_finalize(w, emits, ok) ==
  Vox_dtor(
    delete_AudioIO(
      delete_AudioIO(
        delete(
          delete(
            delete(
              delete(
                delete_dns(delete_qso(stop_audio_watchdog(w), emits, ok)),
                "ptt_valve"),
              "tx_audio_splitter"),
            "rem_audio_valve"),
          "rem_audio_fifo"),
        "mic_audio_io"),
      "spkr_audio_io"))

Constructors ==
  {"qtel_call_dialog_new", "qtel_call_dialog_new_from_host",
   "qtel_call_dialog_new_accept"}

Construct(ctor, settings, mic_ok, spkr_ok, ip_ok, conn_ok, notifies) ==
  IF ctor = "qtel_call_dialog_new"
    THEN qtel_call_dialog_new(settings, mic_ok, spkr_ok, ip_ok, conn_ok)
  ELSE IF ctor = "qtel_call_dialog_new_from_host"
    THEN qtel_call_dialog_new_from_host(settings, mic_ok, spkr_ok)
  ELSE qtel_call_dialog_new_accept(settings, mic_ok, spkr_ok, ip_ok, conn_ok,
                                   notifies)

(***************************************************************************)
(* The state machine.                                                      *)
(***************************************************************************)
\* the world a handler starts in
World(ctx) ==
  [self |-> self, vox |-> vox, audio |-> audio, sources |-> sources,
   trace |-> <<>>, ctx |-> ctx]

\* hang_age counts the time since HANG was entered, up to HangAgeCap;
\* hang_delay is the delay configured when HANG was entered
HangAgeCap == MaxDelay

\* the state after a handler that ended in world w
Commit(after) ==
  \E w \in {after} :
  /\ self' = w.self
  /\ vox' = w.vox
  /\ audio' = w.audio
  /\ trace' = w.trace
  /\ sources' = IF vox.m_state = "HANG" /\ w.vox.m_state # "HANG"
                  THEN {[s EXCEPT !.stale = TRUE] : s \in w.sources}
                  ELSE w.sources
  /\ hang_age' = IF vox.m_state = "HANG" /\ w.vox.m_state = "HANG"
                   THEN hang_age ELSE 0
  /\ hang_delay' = IF w.vox.m_state # "HANG" THEN 0
                   ELSE IF vox.m_state = "HANG" THEN hang_delay
                   ELSE w.vox.m_delay

Init ==
  \E ctor \in Constructors, settings \in Settings,
     mic_ok \in BOOLEAN, spkr_ok \in BOOLEAN, ip_ok \in BOOLEAN, conn_ok \in BOOLEAN,
     notifies \in BOOLEAN :
    \E w \in {Construct(ctor, settings, mic_ok, spkr_ok, ip_ok, conn_ok, notifies)} :
       /\ self = w.self
       /\ vox = w.vox
       /\ audio = w.audio
       /\ sources = w.sources
       /\ trace = w.trace
       /\ hang_age = 0
       /\ hang_delay = 0

\* the worlds a handler can end in: H(ok) is the handler where every device
\* open it makes has the result ok, and the result matters only to a handler
\* that opens a device
Outcomes(H(_)) ==
  Bind(H(TRUE), LAMBDA w :
    IF \E i \in 1..Len(w.trace) : w.trace[i].op = "open"
      THEN {w, H(FALSE)}
      ELSE {w})

\* the process has not been ended by abort()
Running == \A i \in 1..Len(trace) : trace[i].op # "abort"

\* the dialog exists: audio_watchdog_id is set at the end of construction
\* and cleared by finalize alone
Alive == Running /\ self.audio_watchdog_id > 0

\* a click on the PTT button, with the Control key held (ctrl) or not
PttPressedWith(ctrl) ==
  /\ Alive
  /\ \E w \in Outcomes(LAMBDA ok : on_ptt_pressed(World("control"), ctrl, ok)) :
       Commit(w)

PttPressed == \E ctrl \in BOOLEAN : PttPressedWith(ctrl)

PttReleased ==
  /\ Alive
  /\ \E w \in Outcomes(LAMBDA ok : on_ptt_released(World("control"), ok)) :
       Commit(w)

\* the user flips the switch row
VoxEnabledChanged ==
  /\ Alive
  /\ \E w \in Outcomes(LAMBDA ok : adw_switch_row_set_active(
                                     World("control"), ~self.vox_enable_row, ok)) :
       Commit(w)

VoxThresholdChanged ==
  /\ Alive
  /\ \E v \in ThresholdInputs :
       Commit(on_vox_threshold_changed(World("control"), v))

VoxDelayChanged ==
  /\ Alive
  /\ \E v \in DelayInputs :
       Commit(on_vox_delay_changed(World("control"), v))

\* the capture device delivers a block, which the splitter hands to Vox
AudioBlock ==
  /\ Running
  /\ audio.mic_audio_io
  /\ \E samples \in BlockInputs :
       \E w \in Outcomes(LAMBDA ok : Vox_writeSamples(World("audio"), samples,
                                                     Len(samples), ok)) :
         Commit(w)

\* the counts that are not a block
InvalidCounts == {0 - 1, 0}

\* Vox::writeSamples is called with a count that is not positive
InvalidBlock ==
  /\ Running
  /\ audio.mic_audio_io
  /\ \E count \in InvalidCounts :
       \E w \in Outcomes(LAMBDA ok : Vox_writeSamples(World("audio"), <<>>, count, ok)) :
         Commit(w)

\* a due timeout source is dispatched
VoxTimeout ==
  \E src \in sources :
    /\ Running
    /\ src.remaining = 0
    /\ \E w \in Outcomes(LAMBDA ok : Vox_onTimeout(World("control"), src, ok)) :
         Commit(w)

QsoStateChange ==
  /\ Running
  /\ self.qso
  /\ \E state \in ConnectionState :
       \E w \in Outcomes(LAMBDA ok : on_qso_state_change(World("control"), state, ok)) :
         Commit(w)

DnsResultsReady ==
  /\ Running
  /\ self.dns = "pending"
  /\ \E addresses \in BOOLEAN, conn_ok \in BOOLEAN :
       \E w \in Outcomes(LAMBDA ok : on_dns_results_ready(
                                       World("control"), addresses, conn_ok, ok)) :
         Commit(w)

AudioWatchdog ==
  /\ Alive
  /\ Commit(audio_watchdog_callback(World("control")))

\* the last reference to the dialog is dropped
Finalize ==
  /\ Alive
  /\ \E emits \in BOOLEAN :
       \E w \in Outcomes(LAMBDA ok : qtel_call_dialog_finalize(
                                        World("teardown"), emits, ok)) :
         Commit(w)

\* one unit of time passes
Tick ==
  /\ Running
  /\ \/ \E s \in sources : s.remaining > 0
     \/ vox.m_state = "HANG" /\ hang_age < HangAgeCap
  /\ sources' = {[s EXCEPT !.remaining = IF @ > 0 THEN @ - 1 ELSE 0] : s \in sources}
  /\ hang_age' = IF vox.m_state = "HANG" /\ hang_age < HangAgeCap
                   THEN hang_age + 1 ELSE hang_age
  /\ trace' = <<>>
  /\ UNCHANGED <<self, vox, audio, hang_delay>>

Next ==
  \/ PttPressed
  \/ PttReleased
  \/ VoxEnabledChanged
  \/ VoxThresholdChanged
  \/ VoxDelayChanged
  \/ AudioBlock
  \/ InvalidBlock
  \/ VoxTimeout
  \/ QsoStateChange
  \/ DnsResultsReady
  \/ AudioWatchdog
  \/ Finalize
  \/ Tick

Spec == Init /\ [][Next]_vars

\* the dialog exists and is connected, VOX is enabled and PTT is not pressed:
\* the transmit decision rests on the VOX state alone
VoxKeyed ==
  /\ self.state = "CONNECTED"
  /\ ~self.ptt_pressed
  /\ vox.m_enabled
  /\ Alive

\* The GLib main loop lets time pass and dispatches a timeout source that is
\* due; a capture device that is open goes on delivering blocks.  The
\* fairness conditions ask for this only where the transmit decision rests
\* on VOX, and of the blocks only for those delivered while VOX is ACTIVE.
LiveSpec ==
  /\ Spec
  /\ WF_vars(VoxKeyed /\ Tick)
  /\ WF_vars(VoxKeyed /\ VoxTimeout)
  /\ WF_vars(VoxKeyed /\ vox.m_state = "ACTIVE" /\ AudioBlock)

TypeOK ==
  /\ self.state \in ConnectionState
  /\ vox.m_state \in VoxState
  /\ vox.m_delay \in 0..MaxDelay
  /\ hang_age \in 0..HangAgeCap

(***************************************************************************)
(* Properties.  trace holds the valve, device, signal and timer operations *)
(* of the last handler (of the constructor, in an initial state), each     *)
(* with the valves and devices as the operation left them.                 *)
(***************************************************************************)
\* the places of tr where operation op was made on obj
TraceOps(tr, op, obj) == {i \in 1..Len(tr) : tr[i].op = op /\ tr[i].obj = obj}

\* the places of tr where a device was opened or closed
DeviceOps(tr) == {i \in 1..Len(tr) : tr[i].op \in {"open", "close"}}

\* the levels Vox reported for the blocks of tr
BlockLevels(tr) ==
  {tr[i].val : i \in {j \in TraceOps(tr, "emit", "levelChanged") : tr[j].ctx = "audio"}}

\* C1: while the connection state is not CONNECTED, is_transmitting is false
\* and the transmit valve is closed, whatever ptt_pressed, the VOX enabled
\* flag and the VOX state are; a handler that ends outside CONNECTED, such as
\* a PTT press while DISCONNECTED, never opened the transmit valve.
C1_TransmitOnlyConnected ==
  self.state # "CONNECTED" =>
    /\ ~self.is_transmitting
    /\ ~audio.ptt_valve
    /\ \A i \in TraceOps(trace, "setOpen", "ptt_valve") : trace[i].val = 0

C1_Witness ==
  /\ self.state = "DISCONNECTED"
  /\ self.ptt_pressed
  /\ vox.m_enabled
  /\ vox.m_state = "ACTIVE"

C4_HangTimerCancelled ==
  [][/\ (vox.m_state = "HANG" /\ \E l \in BlockLevels(trace') : l > vox.m_threshold)
          => (vox'.m_state = "ACTIVE" /\ sources' = {} /\ vox'.m_timer_id = 0)
     /\ \A s \in sources' : ~s.stale /\ vox'.m_state = "HANG"]_vars

\* a block has taken VOX from HANG back to ACTIVE and the timer was removed
C4_Witness ==
  /\ vox.m_state = "ACTIVE"
  /\ sources = {}
  /\ \E i \in TraceOps(trace, "g_source_remove", "timer") : trace[i].ctx = "audio"

\* C5: every step that enters HANG starts in ACTIVE.
C5_HangOnlyFromActive ==
  [][(vox'.m_state = "HANG" /\ vox.m_state # "HANG") => vox.m_state = "ACTIVE"]_vars

C5_Witness ==
  /\ vox.m_state = "HANG"
  /\ \E i \in TraceOps(trace, "emit", "stateChanged") : trace[i].ctx = "audio"

\* C6: every level Vox emits lies in DbFloor..DbCeiling, log10f is only
\* called with a positive argument, and a block whose average level is at
\* most 0.001 gives DbFloor, one whose average level is above 1.0 DbCeiling.
C6_LevelInRange ==
  /\ \A i \in TraceOps(trace, "emit", "levelChanged") :
       trace[i].val \in DbFloor..DbCeiling
  /\ \A i \in TraceOps(trace, "call", "log10f") : trace[i].val = 1
  /\ \A b \in BlockInputs :
       /\ AvgLevel(b) <= FloorLevel => DbLevel(AvgLevel(b)).db = DbFloor
       /\ AvgLevel(b) > One => DbLevel(AvgLevel(b)).db = DbCeiling

\* a level strictly between floor and ceiling was computed and emitted
C6_Witness ==
  /\ TraceOps(trace, "call", "log10f") # {}
  /\ \E i \in TraceOps(trace, "emit", "levelChanged") :
       trace[i].val \in (DbFloor + 1)..(DbCeiling - 1)

\* C7: in half duplex, every recorded switch to transmit opened the capture
\* device, and wherever the capture device is opened the receive valve was
\* closed by an earlier operation and is still closed.
C7_ReceiveValveBeforeCapture ==
  ~self.audio_full_duplex =>
    /\ \A i \in TraceOps(trace, "setOpen", "ptt_valve") :
         trace[i].val = 1 =>
           \E k \in TraceOps(trace, "open", "mic_audio_io") : k < i
    /\ \A k \in TraceOps(trace, "open", "mic_audio_io") :
         /\ ~trace[k].audio.rem_audio_valve
         /\ \E j \in TraceOps(trace, "setOpen", "rem_audio_valve") :
              j < k /\ trace[j].val = 0

C7_Witness ==
  /\ ~self.audio_full_duplex
  /\ self.is_transmitting
  /\ TraceOps(trace, "open", "mic_audio_io") # {}

\* C8: wherever a device is opened or closed the transmit valve is closed,
\* and in a handler that switched to receive the transmit valve was closed by
\* an operation earlier than every device operation.
C8_TransmitValveFirst ==
  \A j \in DeviceOps(trace) :
    /\ ~trace[j].audio.ptt_valve
    /\ (~self.is_transmitting /\ trace[j].ctx # "construct") =>
         \E k \in TraceOps(trace, "setOpen", "ptt_valve") : k < j /\ trace[k].val = 0

C8_Witness ==
  /\ ~self.is_transmitting
  /\ \E j \in DeviceOps(trace) : trace[j].ctx # "construct"

\* C9: in full duplex, no handler that runs between construction and
\* destruction opens or closes a device or operates the receive valve: the
\* operations it makes are on the transmit valve, signals and timers only.
C9_FullDuplexDevicesUntouched ==
  self.audio_full_duplex =>
    \A i \in 1..Len(trace) :
      trace[i].ctx \in {"control", "audio"} =>
        /\ trace[i].op \notin {"open", "close"}
        /\ trace[i].obj # "rem_audio_valve"
        /\ trace[i].audio.mic_audio_io = audio.mic_audio_io
        /\ trace[i].audio.spkr_audio_io = audio.spkr_audio_io
        /\ trace[i].audio.rem_audio_valve = audio.rem_audio_valve

\* a full-duplex handler has switched to transmit with the devices open
C9_Witness ==
  /\ self.audio_full_duplex
  /\ self.is_transmitting
  /\ audio.mic_audio_io /\ audio.spkr_audio_io /\ audio.rem_audio_valve
  /\ \E i \in TraceOps(trace, "setOpen", "ptt_valve") : trace[i].ctx # "construct"

\* C10: in half duplex the capture device and the playback device are never
\* both open, neither after a handler nor after any operation within it.
C10_OneDeviceOpen ==
  ~self.audio_full_duplex =>
    /\ ~(audio.mic_audio_io /\ audio.spkr_audio_io)
    /\ \A i \in 1..Len(trace) :
         ~(trace[i].audio.mic_audio_io /\ trace[i].audio.spkr_audio_io)

\* half duplex with the capture device open
C10_Witness ==
  /\ ~self.audio_full_duplex
  /\ audio.mic_audio_io
  /\ \E i \in TraceOps(trace, "close", "spkr_audio_io") : trace[i].ctx # "construct"

\* every device open recorded in tr succeeded
AllOpensOk(tr) == \A i \in 1..Len(tr) : tr[i].op = "open" => tr[i].val = 1

\* C11: in half duplex with VOX disabled, connected, and device opens
\* succeeding, a step in which ptt_pressed becomes true ends with the capture
\* device open, the playback device closed, the transmit valve open and the
\* receive valve closed; a step in which ptt_pressed becomes false ends with
\* the capture device closed, the playback device open, the receive valve
\* open and the transmit valve closed.
C11_PttPressRelease ==
  [][(/\ ~self.audio_full_duplex
      /\ ~vox.m_enabled /\ ~vox'.m_enabled
      /\ self.state = "CONNECTED" /\ self'.state = "CONNECTED"
      /\ AllOpensOk(trace'))
       => /\ (~self.ptt_pressed /\ self'.ptt_pressed)
               => /\ audio'.mic_audio_io /\ ~audio'.spkr_audio_io
                  /\ audio'.ptt_valve /\ ~audio'.rem_audio_valve
          /\ (self.ptt_pressed /\ ~self'.ptt_pressed)
               => /\ ~audio'.mic_audio_io /\ audio'.spkr_audio_io
                  /\ audio'.rem_audio_valve /\ ~audio'.ptt_valve]_vars

\* half duplex, VOX disabled, connected: a PTT release has reopened playback
C11_Witness ==
  /\ ~self.audio_full_duplex
  /\ ~vox.m_enabled
  /\ self.state = "CONNECTED"
  /\ ~self.ptt_pressed
  /\ audio.spkr_audio_io /\ audio.rem_audio_valve /\ ~audio.mic_audio_io
  /\ \E i \in TraceOps(trace, "open", "spkr_audio_io") :
       trace[i].ctx = "control" /\ trace[i].val = 1

\* C12: a step taken while transmitting that ends in DISCONNECTED or
\* BYE_RECEIVED ends with is_transmitting false and the transmit valve
\* closed, whatever ptt_pressed and the VOX state are; in half duplex, unless
\* the step destroys the dialog, it has closed the capture device, made an
\* open call on the playback device (which is open if that call succeeded)
\* and opened the receive valve.
C12_DisconnectStopsTransmit ==
  [][(self.is_transmitting /\ self'.state \in {"DISCONNECTED", "BYE_RECEIVED"})
       => /\ ~self'.is_transmitting
          /\ ~audio'.ptt_valve
          /\ (~self.audio_full_duplex /\ self'.audio_watchdog_id > 0)
               => /\ ~audio'.mic_audio_io
                  /\ audio'.rem_audio_valve
                  /\ \E i \in TraceOps(trace', "open", "spkr_audio_io") :
                       audio'.spkr_audio_io = (trace'[i].val = 1)]_vars

\* the connection ended while PTT was held in half duplex
C12_Witness ==
  /\ self.state \in {"DISCONNECTED", "BYE_RECEIVED"}
  /\ self.ptt_pressed
  /\ ~self.audio_full_duplex
  /\ \E i \in TraceOps(trace, "setOpen", "ptt_valve") :
       trace[i].ctx = "control" /\ trace[i].val = 0

\* C13: a click without Control, unless PTT is toggled on, sets ptt_pressed,
\* and the release that follows clears it; a click with Control inverts
\* ptt_pressed, and the release that follows leaves it unchanged; no other
\* step changes ptt_pressed.  (Each case is written in the contrapositive: a
\* step that ends otherwise is not a step of that handler.)
C13_PttPressedBoolean ==
  [][/\ (~(self.ptt_toggle_mode /\ self.ptt_pressed)
         /\ ~(self'.ptt_pressed /\ ~self'.ptt_toggle_mode))
          => ~PttPressedWith(FALSE)
     /\ (~self.ptt_toggle_mode /\ self'.ptt_pressed) => ~PttReleased
     /\ ~(self'.ptt_pressed = ~self.ptt_pressed /\ self'.ptt_toggle_mode)
          => ~PttPressedWith(TRUE)
     /\ (self.ptt_toggle_mode /\ self'.ptt_pressed # self.ptt_pressed)
          => ~PttReleased
     /\ self'.ptt_pressed # self.ptt_pressed => (PttPressed \/ PttReleased)]_vars

\* PTT is toggled on
C13_Witness ==
  /\ self.ptt_pressed
  /\ self.ptt_toggle_mode

\* the ratios of the stages named in objs, in the order tr records their
\* creation
StageRatios(tr, objs) ==
  LET stages == SelectSeq(tr, LAMBDA e : e.op = "new" /\ e.obj \in objs)
  IN [i \in 1..Len(stages) |-> stages[i].val]

RECURSIVE Product(_, _)
\* f[1] * ... * f[n]
Product(f, n) == IF n = 0 THEN 1 ELSE Product(f, n - 1) * f[n]

ComposedRatio(tr, objs) == Product(StageRatios(tr, objs), Len(StageRatios(tr, objs)))

\* the device rates the chains of tr were built for
ChainRates(tr) == {tr[i].val : i \in TraceOps(tr, "call", "sampleRate")}

PlaybackStages == {"i1", "i2"}
CaptureStages == {"d1", "d2"}

SupportedRates == {8000, 16000, 48000}

\* C15: a construction for a device rate outside SupportedRates creates no
\* filter stage and opens no device.
C15_UnsupportedRateRejected ==
  (ChainRates(trace) \ SupportedRates # {}) =>
    /\ StageRatios(trace, PlaybackStages \cup CaptureStages \cup {"down_sampler"}) = <<>>
    /\ TraceOps(trace, "open", "mic_audio_io") = {}
    /\ TraceOps(trace, "open", "spkr_audio_io") = {}

\* a device open recorded in tr failed
SomeOpenFailed(tr) == \E i \in 1..Len(tr) : tr[i].op = "open" /\ tr[i].val = 0

\* C16: in half duplex, while the dialog exists, a failed open leaves both
\* devices closed and every handler goes on to its end; a step that does not switch the direction
\* leaves the devices as they are, so the direction stays without a device;
\* every step that switches to transmitting makes an open call on the capture
\* device and every step that switches to receiving makes one on the playback
\* device, whatever the earlier opens returned, and the device is open
\* exactly if that call succeeded.
C16_OpenRetriedOnSwitch ==
  [][(~self.audio_full_duplex /\ self'.audio_watchdog_id > 0) =>
       /\ (~self.is_transmitting /\ self'.is_transmitting) =>
            /\ \E i \in TraceOps(trace', "open", "mic_audio_io") :
                 audio'.mic_audio_io = (trace'[i].val = 1)
            /\ ~audio'.spkr_audio_io
       /\ (self.is_transmitting /\ ~self'.is_transmitting) =>
            /\ \E i \in TraceOps(trace', "open", "spkr_audio_io") :
                 audio'.spkr_audio_io = (trace'[i].val = 1)
            /\ ~audio'.mic_audio_io
       /\ (self.is_transmitting = self'.is_transmitting) =>
            /\ audio'.mic_audio_io = audio.mic_audio_io
            /\ audio'.spkr_audio_io = audio.spkr_audio_io
       /\ SomeOpenFailed(trace') =>
            (~audio'.mic_audio_io /\ ~audio'.spkr_audio_io)]_vars

\* half duplex: a switch to receiving that started while transmitting with
\* the capture device closed, its open having failed, and that has opened
\* the playback device
C16_Witness ==
  /\ ~self.audio_full_duplex
  /\ ~self.is_transmitting
  /\ audio.spkr_audio_io
  /\ Len(trace) > 1
  /\ trace[1].op = "setOpen" /\ trace[1].obj = "ptt_valve" /\ trace[1].val = 0
  /\ ~trace[1].audio.mic_audio_io
  /\ \E i \in TraceOps(trace, "open", "spkr_audio_io") :
       trace[i].ctx = "control" /\ trace[i].val = 1

\* C17: after a failed device open, at construction or in a switch, the
\* dialog is not transmitting and the transmit valve is closed.
C17_FailureLeavesReceiveMode ==
  SomeOpenFailed(trace) => (~self.is_transmitting /\ ~audio.ptt_valve)

\* the entries of tr made by op while an audio block was processed
InAudioCallback(tr, ops) ==
  {i \in 1..Len(tr) : tr[i].ctx = "audio" /\ tr[i].op \in ops}

\* C18: no device open or close call is made while Vox::writeSamples
\* processes a block, the notifications it emits and the handlers they run
\* included.
C18_NoDeviceCallInAudioCallback ==
  InAudioCallback(trace, {"open", "close"}) = {}

\* a block has changed the VOX state and, through on_vox_state_changed and
\* set_transmitting, the transmit decision
C18_Witness ==
  /\ self.is_transmitting
  /\ InAudioCallback(trace, {"setOpen"}) # {}
  /\ \E i \in TraceOps(trace, "emit", "stateChanged") : trace[i].ctx = "audio"

\* C19: neither valve is opened or closed while Vox::writeSamples processes
\* a block, the notifications it emits and the handlers they run included.
C19_NoValveToggleInAudioCallback ==
  InAudioCallback(trace, {"setOpen"}) = {}

\* the nodes of the audio graph, with their buffers, that finalize destroys
GraphNodes == {"ptt_valve", "tx_audio_splitter", "rem_audio_valve", "rem_audio_fifo"}

\* C20: a teardown ends not transmitting, and when it destroys a node of the
\* graph or a buffer the transmit valve is closed and both devices are
\* closed already.
C20_TeardownOrder ==
  \A i \in 1..Len(trace) :
    trace[i].ctx = "teardown" =>
      /\ ~self.is_transmitting
      /\ (trace[i].op = "delete" /\ trace[i].obj \in GraphNodes) =>
           /\ ~trace[i].audio.ptt_valve
           /\ ~trace[i].audio.mic_audio_io
           /\ ~trace[i].audio.spkr_audio_io

\* the part of C20 the code keeps: once finalize has run, no audio block is
\* delivered and no hang timer is dispatched
NoCallbackAfterFinalize ==
  [][~Alive => ~(AudioBlock \/ VoxTimeout)]_vars

\* C21: while the detector exists there is at most one pending timeout
\* source, one is pending exactly when the state is HANG, and it is the one
\* m_timer_id names.
C21_OneHangTimer ==
  Alive =>
    /\ Cardinality(sources) <= 1
    /\ (sources # {}) <=> (vox.m_state = "HANG")
    /\ (vox.m_timer_id # 0) <=> (vox.m_state = "HANG")
    /\ \A s \in sources : s.id = vox.m_timer_id

\* VOX was disabled in HANG: the state is IDLE and the source was removed
C21_Witness ==
  /\ Alive
  /\ ~vox.m_enabled
  /\ vox.m_state = "IDLE"
  /\ sources = {}
  /\ \E i \in TraceOps(trace, "g_source_remove", "timer") : trace[i].ctx = "control"

\* C22: a step that disables VOX, or that switches the VOX row off, ends in
\* IDLE with no timeout source pending and has emitted the level DbFloor; if
\* it started in ACTIVE or HANG it has emitted stateChanged.
C22_DisableForcesIdle ==
  [][((vox.m_enabled /\ ~vox'.m_enabled) \/ (self.vox_enable_row /\ VoxEnabledChanged))
       => /\ ~vox'.m_enabled
          /\ vox'.m_state = "IDLE"
          /\ sources' = {} /\ vox'.m_timer_id = 0
          /\ \E i \in TraceOps(trace', "emit", "levelChanged") : trace'[i].val = DbFloor
          /\ vox.m_state # "IDLE" =>
               \E i \in TraceOps(trace', "emit", "stateChanged") :
                 \E j \in TraceOps(trace', "emit", "levelChanged") : j < i]_vars

\* VOX was disabled in ACTIVE or HANG: floor level, then stateChanged
C22_Witness ==
  /\ ~vox.m_enabled
  /\ vox.m_state = "IDLE"
  /\ \E i \in TraceOps(trace, "emit", "stateChanged") :
       /\ trace[i].ctx = "control"
       /\ \E j \in TraceOps(trace, "emit", "levelChanged") :
            j < i /\ trace[j].val = DbFloor

\* C23: the threshold lies in DbFloor..DbCeiling and the delay is not
\* negative, whatever values the settings and the rows hand to setThreshold
\* and setDelay (ThresholdInputs and DelayInputs hold values outside).
C23_ThresholdDelayClamped ==
  /\ vox.m_threshold \in DbFloor..DbCeiling
  /\ vox.m_delay >= 0

\* a threshold above DbCeiling was stored as DbCeiling
C23_Witness ==
  /\ vox.m_threshold = DbCeiling
  /\ DbCeiling \notin ThresholdInputs

\* C24: a call of Vox::writeSamples with a count that is not positive fails
\* its assertion, with VOX enabled or disabled: no level and no state change
\* is emitted, and the Vox, the dialog, the valves, the devices and the timer
\* sources are as before.
C24_InvalidBlockAsserted ==
  [][InvalidBlock =>
       /\ \E i \in 1..Len(trace') : trace'[i].op = "abort"
       /\ \A i \in 1..Len(trace') : trace'[i].op # "emit"
       /\ vox' = vox /\ self' = self /\ audio' = audio /\ sources' = sources]_vars

\* the assertion failed in ACTIVE with VOX enabled, where a block of level
\* DbFloor would have given HANG
C24_Witness ==
  /\ ~Running
  /\ vox.m_enabled
  /\ vox.m_state = "ACTIVE"
  /\ vox.m_threshold >= DbFloor

\* the state is the one a constructor has left
Constructed == trace # <<>> /\ trace[1].ctx = "construct"

\* C25 as stated: in half duplex a constructor leaves the playback device
\* open, the receive valve open, the capture device closed and the transmit
\* valve closed.
C25_InitialReceiveMode ==
  (Constructed /\ ~self.audio_full_duplex) =>
    /\ audio.spkr_audio_io /\ audio.rem_audio_valve
    /\ ~audio.mic_audio_io /\ ~audio.ptt_valve

\* C25, amended: in half duplex a constructor leaves the capture device
\* closed, never opened, and the transmit valve closed; it has made one open
\* call on the playback device, and the playback device and the receive
\* valve are both open if that call succeeded and both closed if it failed.
C25_InitialReceiveModeIfOpened ==
  (Constructed /\ ~self.audio_full_duplex) =>
    /\ ~audio.mic_audio_io /\ ~audio.ptt_valve
    /\ ~self.is_transmitting
    /\ TraceOps(trace, "open", "mic_audio_io") = {}
    /\ Cardinality(TraceOps(trace, "open", "spkr_audio_io")) = 1
    /\ \A i \in TraceOps(trace, "open", "spkr_audio_io") :
         /\ audio.spkr_audio_io = (trace[i].val = 1)
         /\ audio.rem_audio_valve = (trace[i].val = 1)

\* a half-duplex dialog whose playback open at construction failed
C25_Witness ==
  /\ Constructed
  /\ ~self.audio_full_duplex
  /\ ~audio.spkr_audio_io /\ ~audio.rem_audio_valve
  /\ \E i \in TraceOps(trace, "open", "spkr_audio_io") : trace[i].val = 0

\* the places of tr where a stateChange notification arrived
Notifications(tr) == {i \in 1..Len(tr) : tr[i].op = "stateChange"}

\* C26: after a handler that was notified of a connection state, the stored
\* state is the last one notified; after a constructor that was not notified
\* of any, the stored state is DISCONNECTED.
C26_StateFollowsNotification ==
  /\ \A i \in Notifications(trace) :
       (\A j \in Notifications(trace) : j <= i) => self.state = trace[i].obj
  /\ (Constructed /\ Notifications(trace) = {}) => self.state = "DISCONNECTED"

\* the valve and device operations of tr on the objects objs, in order, each
\* as <<op, obj>>
PipelineOps(tr, objs) ==
  LET ops == SelectSeq(tr, LAMBDA e : e.op \in {"setOpen", "open", "close"}
                                        /\ e.obj \in objs)
  IN [i \in 1..Len(ops) |-> <<ops[i].op, ops[i].obj>>]

\* what a switch to transmit operates on besides the transmit valve
SwitchObjects == {"rem_audio_valve", "mic_audio_io", "spkr_audio_io"}

\* a half-duplex step that switches to transmit
SwitchToTransmit ==
  ~self.audio_full_duplex /\ ~self.is_transmitting /\ self'.is_transmitting

\* C27 as stated: a half-duplex switch to transmit closes the receive valve,
\* closes the playback device, closes the capture device and opens the
\* capture device, in this order.
C27_TxSwitchPlaybackFirst ==
  [][SwitchToTransmit =>
       PipelineOps(trace', SwitchObjects) =
         << <<"setOpen", "rem_audio_valve">>, <<"close", "spkr_audio_io">>,
            <<"close", "mic_audio_io">>, <<"open", "mic_audio_io">> >>]_vars

\* C27, amended: a half-duplex switch to transmit closes the receive valve,
\* closes the capture device, closes the playback device, opens the capture
\* device and then opens the transmit valve, in this order and nothing else.
C27_TxSwitchSequence ==
  [][SwitchToTransmit =>
       /\ PipelineOps(trace', SwitchObjects \cup {"ptt_valve"}) =
            << <<"setOpen", "rem_audio_valve">>, <<"close", "mic_audio_io">>,
               <<"close", "spkr_audio_io">>, <<"open", "mic_audio_io">>,
               <<"setOpen", "ptt_valve">> >>
       /\ ~audio'.rem_audio_valve /\ audio'.ptt_valve]_vars

\* a half-duplex switch to transmit has run to its end
C27_Witness ==
  /\ ~self.audio_full_duplex
  /\ self.is_transmitting
  /\ Len(PipelineOps(trace, SwitchObjects)) = 4
  /\ PipelineOps(trace, SwitchObjects)[1] = <<"setOpen", "rem_audio_valve">>
  /\ PipelineOps(trace, SwitchObjects)[4] = <<"open", "mic_audio_io">>

\* C28: a step that enters HANG leaves one timeout source, due after the
\* whole delay configured at that step, whatever time an earlier HANG episode
\* took; while in HANG the time left on the source and the time since HANG
\* was entered add up to at least that delay; and the timeout that ends HANG
\* is dispatched no earlier than that delay after HANG was entered.
C28_HangTimerFullDelay ==
  [][/\ (vox.m_state # "HANG" /\ vox'.m_state = "HANG") =>
          /\ hang_age' = 0 /\ hang_delay' = vox.m_delay
          /\ \E s \in sources' :
               sources' = {s} /\ s.id = vox'.m_timer_id /\ s.remaining = vox.m_delay
     /\ (vox'.m_state = "HANG" /\ self'.audio_watchdog_id > 0) =>
          \A s \in sources' : s.remaining + hang_age' >= hang_delay'
     /\ (VoxTimeout /\ vox.m_state = "HANG") => hang_age >= hang_delay]_vars

\* HANG has just been entered with a delay that is not zero, the source due
\* after all of it
C28_Witness ==
  /\ vox.m_state = "HANG"
  /\ vox.m_delay > 0
  /\ hang_age = 0
  /\ \E s \in sources : s.remaining = vox.m_delay
  /\ \E i \in TraceOps(trace, "g_timeout_add", "timer") : trace[i].ctx = "audio"

\* C29: a step in which the stored state becomes CONNECTED ends, unless it
\* ends transmitting in half duplex, with the playback device open and the
\* receive valve open.
C29_ConnectedReceivePathActive ==
  [][(self.state # "CONNECTED" /\ self'.state = "CONNECTED"
      /\ ~(self'.is_transmitting /\ ~self'.audio_full_duplex))
       => (audio'.spkr_audio_io /\ audio'.rem_audio_valve)]_vars

\* the device whose sample rate selects the stage obj
StageDevice(obj) == IF obj \in PlaybackStages THEN "spkr_audio_io" ELSE "mic_audio_io"

\* C30: in a construction, every stage of the playback chain and of the
\* capture chain is created after an open call on the device whose sample
\* rate selected it.
C30_DeviceOpenedBeforeChain ==
  Constructed =>
    \A i \in 1..Len(trace) :
      (trace[i].op = "new" /\ trace[i].obj \in PlaybackStages \cup CaptureStages) =>
        \E j \in TraceOps(trace, "open", StageDevice(trace[i].obj)) : j < i

\* C31: whenever VOX is disabled the VOX state is IDLE and no timeout source
\* is armed; a handler that ends with VOX disabled has armed no timer, and if
\* it was the delivery of a block it has emitted nothing, so left the state
\* as it was.
C31_DisabledIsIdle ==
  ~vox.m_enabled =>
    /\ vox.m_state = "IDLE"
    /\ vox.m_timer_id = 0
    /\ TraceOps(trace, "g_timeout_add", "timer") = {}
    /\ InAudioCallback(trace, {"emit", "setOpen", "g_timeout_add", "g_source_remove"}) = {}

\* VOX was switched off in ACTIVE or HANG while the capture device delivers
\* blocks
C31_Witness ==
  /\ Alive
  /\ ~vox.m_enabled
  /\ ~self.vox_enable_row
  /\ audio.mic_audio_io
  /\ vox.m_state = "IDLE"
  /\ \E i \in TraceOps(trace, "emit", "stateChanged") : trace[i].ctx = "control"

\* C32: a step that enters IDLE is the dispatch of the hang timer in HANG or
\* a step that disables VOX, and never the delivery of a block; ACTIVE has
\* no timeout source, and while VOX stays enabled a step that leaves ACTIVE
\* is the delivery of a block.
C32_IdleOnlyByTimeoutOrDisable ==
  [][/\ (vox.m_state # "IDLE" /\ vox'.m_state = "IDLE") =>
          /\ InAudioCallback(trace', {"emit", "abort"}) = {}
          /\ \/ vox.m_enabled /\ ~vox'.m_enabled
             \/ vox.m_state = "HANG" /\ VoxTimeout
     /\ vox'.m_state = "ACTIVE" => sources' = {}
     /\ (vox.m_state = "ACTIVE" /\ vox'.m_enabled /\ vox'.m_state # "ACTIVE") =>
          AudioBlock]_vars

\* ACTIVE has outlasted a handler that ended the connection
C32_Witness ==
  /\ vox.m_state = "ACTIVE"
  /\ vox.m_enabled
  /\ sources = {}
  /\ self.state # "CONNECTED"
  /\ \E i \in TraceOps(trace, "setOpen", "ptt_valve") : trace[i].ctx = "control"

\* the valve and device operations an event handler recorded in tr, in
\* order, each as <<op, obj, val>>
SwitchOps(tr) ==
  LET ops == SelectSeq(tr, LAMBDA e : e.op \in {"setOpen", "open", "close"}
                                        /\ e.ctx # "construct")
  IN [i \in 1..Len(ops) |-> <<ops[i].op, ops[i].obj, ops[i].val>>]

\* the first and the last operation of a switch
EdgeEnds(ops) == <<ops[1][1], ops[1][2], ops[1][3]>> \o ops[Len(ops)]

\* C33: in half duplex the receive valve and the transmit valve are never
\* both open, neither after a handler nor after any operation within it; a
\* handler that operates a valve or a device starts by closing the receive
\* valve and ends by opening the transmit valve (rising edge), or starts by
\* closing the transmit valve and ends by opening the receive valve (falling
\* edge).
C33_ValvesNeverBothOpen ==
  ~self.audio_full_duplex =>
    /\ ~(audio.rem_audio_valve /\ audio.ptt_valve)
    /\ \A i \in 1..Len(trace) :
         ~(trace[i].audio.rem_audio_valve /\ trace[i].audio.ptt_valve)
    /\ SwitchOps(trace) # <<>> =>
         EdgeEnds(SwitchOps(trace)) \in
           { <<"setOpen", "rem_audio_valve", 0, "setOpen", "ptt_valve", 1>>,
             <<"setOpen", "ptt_valve", 0, "setOpen", "rem_audio_valve", 1>> }

\* a half-duplex falling edge has run to its end: transmit valve closed
\* first, receive valve opened last
C33_Witness ==
  /\ ~self.audio_full_duplex
  /\ ~self.is_transmitting
  /\ audio.rem_audio_valve /\ ~audio.ptt_valve
  /\ SwitchOps(trace) # <<>>
  /\ SwitchOps(trace)[1] = <<"setOpen", "ptt_valve", 0>>
  /\ \E i \in 1..Len(trace) : trace[i].audio.ptt_valve = FALSE /\ trace[i].audio.mic_audio_io

\* C34: after every handler, and after a constructor, the transmit valve is
\* open exactly if is_transmitting is true; a handler operates the transmit
\* valve at most once, and only to set it to the value is_transmitting has
\* when the handler ends, which differs from the one it had before.
C34_TransmitValveFollowsFlag ==
  /\ audio.ptt_valve = self.is_transmitting
  /\ \A i \in TraceOps(trace, "setOpen", "ptt_valve") :
       /\ (trace[i].val = 1) = self.is_transmitting
       /\ trace[i].audio.ptt_valve = self.is_transmitting
       /\ \A j \in TraceOps(trace, "setOpen", "ptt_valve") :
            (trace[i].ctx # "construct" /\ trace[j].ctx # "construct") => i = j

\* a block has switched the dialog to transmitting through VOX
C34_Witness ==
  /\ self.is_transmitting
  /\ audio.ptt_valve
  /\ ~self.ptt_pressed
  /\ vox.m_state = "ACTIVE"
  /\ \E i \in TraceOps(trace, "setOpen", "ptt_valve") :
       trace[i].ctx = "audio" /\ trace[i].val = 1

\* C35: in half duplex, after every handler and after a constructor, the
\* capture device is open only if is_transmitting is true and the playback
\* device is open only if is_transmitting is false.
C35_DeviceMatchesDirection ==
  ~self.audio_full_duplex =>
    /\ audio.mic_audio_io => self.is_transmitting
    /\ audio.spkr_audio_io => ~self.is_transmitting

\* half duplex: the hang timer has ended a VOX transmission, the capture
\* device was closed and the playback device opened
C35_Witness ==
  /\ ~self.audio_full_duplex
  /\ ~self.is_transmitting
  /\ vox.m_enabled /\ vox.m_state = "IDLE"
  /\ ~audio.mic_audio_io /\ audio.spkr_audio_io
  /\ \E i \in TraceOps(trace, "close", "mic_audio_io") :
       trace[i].ctx = "control" /\ trace[1].audio.mic_audio_io
  /\ TraceOps(trace, "emit", "stateChanged") # {}

\* C36: a step that leaves CONNECTED changes neither ptt_pressed nor the VOX
\* state nor the VOX enabled flag; a step that enters CONNECTED starts not
\* transmitting, and it opens the transmit valve and ends transmitting
\* exactly if, as it starts, ptt_pressed is true or VOX is enabled in ACTIVE
\* or HANG.
C36_ReconnectResumesTransmit ==
  [][/\ (self.state = "CONNECTED" /\ self'.state # "CONNECTED") =>
          /\ self'.ptt_pressed = self.ptt_pressed
          /\ vox'.m_state = vox.m_state
          /\ vox'.m_enabled = vox.m_enabled
     /\ (self.state # "CONNECTED" /\ self'.state = "CONNECTED") =>
          /\ ~self.is_transmitting
          /\ self'.is_transmitting =
               (self.ptt_pressed \/ (vox.m_enabled /\ vox.m_state # "IDLE"))
          /\ self'.is_transmitting =
               (\E i \in TraceOps(trace', "setOpen", "ptt_valve") : trace'[i].val = 1)]_vars

\* half duplex: VOX went ACTIVE in an earlier connection, the only time the
\* capture device was open, and the notification of CONNECTED has opened the
\* transmit valve
C36_Witness ==
  /\ ~self.audio_full_duplex
  /\ self.state = "CONNECTED"
  /\ self.is_transmitting
  /\ ~self.ptt_pressed
  /\ vox.m_state = "ACTIVE"
  /\ TraceOps(trace, "stateChange", "CONNECTED") # {}
  /\ ~Constructed
  /\ \E i \in TraceOps(trace, "setOpen", "ptt_valve") : trace[i].val = 1

\* the dialog exists and is connected, VOX is enabled, PTT is not pressed,
\* the capture device is open while VOX is not IDLE, and the handler that ran
\* last, if it was the delivery of a block, reported a level at or below the
\* threshold
Quiet ==
  /\ VoxKeyed
  /\ vox.m_state # "IDLE" => audio.mic_audio_io
  /\ \A l \in BlockLevels(trace) : l <= vox.m_threshold

\* not transmitting; in half duplex the capture device is closed and the
\* receive valve is open
ReceiveRestored ==
  /\ vox.m_state = "IDLE"
  /\ ~self.is_transmitting
  /\ ~audio.ptt_valve
  /\ ~self.audio_full_duplex => (~audio.mic_audio_io /\ audio.rem_audio_valve)

\* C37: if from some point on Quiet holds for ever, then whenever the dialog
\* is transmitting it comes to a state in which the VOX state is IDLE, it is
\* not transmitting, the transmit valve is closed and, in half duplex, the
\* capture device is closed and the receive valve is open.
C37_QuietEndsTransmission ==
  <>[]Quiet => (self.is_transmitting ~> ReceiveRestored)

\* half duplex: the hang timer has ended a VOX transmission in a quiet state
C37_Witness ==
  /\ Quiet
  /\ ~self.audio_full_duplex
  /\ ReceiveRestored
  /\ \E i \in TraceOps(trace, "emit", "stateChanged") : trace[i].ctx = "control"
  /\ \E i \in TraceOps(trace, "setOpen", "ptt_valve") : trace[i].val = 0

\* C38: a click without Control ends with toggle mode off, and with
\* ptt_pressed false if PTT was toggled on; toggle mode is switched on by a
\* click with Control only, so it is still off at the release that follows
\* the click; and a release in that mode ends with ptt_pressed false and
\* toggle mode off.  (The cases of a handler are written in the
\* contrapositive.)
C38_PlainClickEndsPtt ==
  [][/\ (self'.ptt_toggle_mode
         \/ (self.ptt_toggle_mode /\ self.ptt_pressed /\ self'.ptt_pressed))
          => ~PttPressedWith(FALSE)
     /\ (~self.ptt_toggle_mode /\ (self'.ptt_pressed \/ self'.ptt_toggle_mode))
          => ~PttReleased
     /\ (~self.ptt_toggle_mode /\ self'.ptt_toggle_mode) => PttPressedWith(TRUE)]_vars

\* full duplex, connected, VOX disabled: a click or a release has taken PTT
\* off and ended the transmission
C38_Witness ==
  /\ ~self.ptt_pressed
  /\ ~self.ptt_toggle_mode
  /\ self.audio_full_duplex
  /\ self.state = "CONNECTED"
  /\ ~vox.m_enabled
  /\ \E i \in TraceOps(trace, "setOpen", "ptt_valve") :
       trace[i].ctx = "control" /\ trace[i].val = 0

\* C39: in full duplex a constructor makes one open call on each device and
\* leaves the receive valve open exactly if both succeeded; no later handler
\* makes an open call or operates the receive valve, so while the dialog
\* exists the receive valve is open exactly if both devices are open.
C39_FullDuplexReceiveValve ==
  self.audio_full_duplex =>
    /\ Constructed =>
         /\ Cardinality(TraceOps(trace, "open", "mic_audio_io")) = 1
         /\ Cardinality(TraceOps(trace, "open", "spkr_audio_io")) = 1
         /\ audio.rem_audio_valve = AllOpensOk(trace)
    /\ ~Constructed =>
         \A i \in 1..Len(trace) :
           /\ trace[i].op # "open"
           /\ trace[i].obj # "rem_audio_valve" \/ trace[i].op = "delete"
    /\ self.audio_watchdog_id > 0 =>
         audio.rem_audio_valve = (audio.mic_audio_io /\ audio.spkr_audio_io)

\* full duplex: the capture open failed at construction, and the dialog is
\* transmitting with the playback device open and the receive valve closed
C39_Witness ==
  /\ self.audio_full_duplex
  /\ Alive
  /\ ~Constructed
  /\ self.is_transmitting
  /\ ~audio.mic_audio_io /\ audio.spkr_audio_io
  /\ ~audio.rem_audio_valve

=============================================================================
